---- MODULE Spec2Model ----
(***************************************************************************)
(* Model of the session-file extraction engine of cv-main.py:              *)
(*   extract_values_from_list, recursive_search_arrays,                    *)
(*   smart_extract_curve and parse_pssession.                              *)
(*                                                                         *)
(* Text (file content, dictionary keys, titles, names) is a sequence of    *)
(* one-character strings.  A JSON value is a record tagged by t:           *)
(*   [t |-> "num", n, e]   a number: digits n, exponent e (-1: an int)     *)
(*   [t |-> "bool", b]     [t |-> "null"]     [t |-> "str", s]             *)
(*   [t |-> "list", items]                     a Python list               *)
(*   [t |-> "dict", keys, vals]                a Python dict, in key order *)
(* A call that can raise returns [exc |-> TRUE] or [exc |-> FALSE, val].   *)
(***************************************************************************)
EXTENDS Integers, Sequences, FiniteSets, TLC

VARIABLES
  pc,                \* position of the running function
  docs, tail,        \* the documents and the remainder the content is made of
  content, pos, all_json_objects,      \* parse_pssession, lines 106-117
  data_list, norm_result,              \* extract_values_from_list
  curve_obj, candidates, best_x, best_y, fallback_ran,    \* smart_extract_curve
  file, root_i, measurements, meas_i, title, curves, c_idx, datasets, raised,
  hist               \* the curves processed so far, with what each one gave

splitVars == <<docs, tail, content, pos, all_json_objects>>
normVars  == <<data_list, norm_result>>
curveVars == <<curve_obj, candidates, best_x, best_y, fallback_ran>>
parseVars ==
  <<file, root_i, measurements, meas_i, title, curves, c_idx, datasets, raised, hist>>
vars == <<pc, splitVars, normVars, curveVars, parseVars>>

-----------------------------------------------------------------------------
(* Bounds of the model *)
MaxDocs == 2        \* documents in one content
MaxTail == 2        \* characters of the remainder after the last document
MaxNormLen == 3     \* elements of an array given to extract_values_from_list
MaxLen == 10        \* elements of the longest array of a curve
MaxSlots == 3       \* arrays held directly by a curve object
MaxCurves == 2      \* curves of one measurement

-----------------------------------------------------------------------------
(* JSON values *)
Num(n)        == [t |-> "num", n |-> n, e |-> -1]
Float(n, e)   == [t |-> "num", n |-> n, e |-> e]
Bool(b)       == [t |-> "bool", b |-> b]
Null          == [t |-> "null"]
Str(s)        == [t |-> "str", s |-> s]
List(items)   == [t |-> "list", items |-> items]
Dict(ks, vs)  == [t |-> "dict", keys |-> ks, vals |-> vs]

Ok(v) == [exc |-> FALSE, val |-> v]
Raised == [exc |-> TRUE]

Min(a, b) == IF a <= b THEN a ELSE b

(* sub in s, for texts *)
Contains(s, sub) ==
  \E i \in 0..(Len(s) - Len(sub)) : SubSeq(s, i + 1, i + Len(sub)) = sub

-----------------------------------------------------------------------------
(* The document-splitting loop, lines 106-117 *)

SplitChars == {"1", "e", " ", "[", "]", "x"}

isspace(c) == c = " "

(* the loop without its whitespace skip *)
SkipNothing(s, p) == p

(* line 111: while pos < len(content) and content[pos].isspace(): pos += 1 *)
RECURSIVE SkipSpace(_, _)
SkipSpace(s, p) ==
  IF p < Len(s) /\ isspace(s[p + 1]) THEN SkipSpace(s, p + 1) ELSE p

(* the end of the run of digits that starts at p *)
RECURSIVE DigitsEnd(_, _)
DigitsEnd(s, p) ==
  IF p < Len(s) /\ s[p + 1] = "1" THEN DigitsEnd(s, p + 1) ELSE p

(* int() of a run of k digits "1" *)
RECURSIVE Ones(_)
Ones(k) == IF k = 0 THEN 0 ELSE 10 * Ones(k - 1) + 1

(* json.scanner: NUMBER_RE, integer part and optional exponent *)
match_number(s, p) ==
  LET ie == DigitsEnd(s, p)
      ee == IF ie < Len(s) /\ s[ie + 1] = "e" THEN DigitsEnd(s, ie + 1) ELSE ie
  IN  IF ie = p THEN [ok |-> FALSE]
      ELSE IF ee > ie + 1
           THEN [ok |-> TRUE, obj |-> Float(Ones(ie - p), Ones(ee - ie - 1)), end |-> ee]
           ELSE [ok |-> TRUE, obj |-> Num(Ones(ie - p)), end |-> ie]

(* json.decoder WHITESPACE.match(s, p).end() *)
RECURSIVE json_ws(_, _)
json_ws(s, p) ==
  IF p < Len(s) /\ s[p + 1] = " " THEN json_ws(s, p + 1) ELSE p

(* json.scanner scan_once with json.decoder JSONArray, for numbers and   *)
(* arrays of at most one element                                         *)
RECURSIVE scan_once(_, _)
scan_once(s, p) ==
  IF p >= Len(s) THEN [ok |-> FALSE]
  ELSE IF s[p + 1] = "["
  THEN LET q == json_ws(s, p + 1)
       IN  IF q < Len(s) /\ s[q + 1] = "]"
           THEN [ok |-> TRUE, obj |-> List(<<>>), end |-> q + 1]
           ELSE LET v == scan_once(s, q)
                IN  IF ~v.ok THEN [ok |-> FALSE]
                    ELSE LET r == json_ws(s, v.end)
                         IN  IF r < Len(s) /\ s[r + 1] = "]"
                             THEN [ok |-> TRUE, obj |-> List(<<v.obj>>), end |-> r + 1]
                             ELSE [ok |-> FALSE]
  ELSE match_number(s, p)

(* decoder.raw_decode(content, idx=pos), line 114 *)
raw_decode(s, idx) == scan_once(s, idx)

DocTexts ==
  { <<"1">>, <<"1", "1">>, <<"1", "e", "1">>, <<"[", "]">>,
    <<"[", "1", "]">>, <<"[", " ", "[", "]", "]">> }

RECURSIVE Texts(_, _)
Texts(chars, n) ==
  IF n = 0 THEN {<<>>}
  ELSE LET shorter == Texts(chars, n - 1)
       IN  shorter \cup {Append(t, c) : t \in {u \in shorter : Len(u) = n - 1}, c \in chars}

DocLists == UNION {[1..n -> DocTexts] : n \in 0..MaxDocs}

(* the documents, one space between two of them, and the remainder *)
RECURSIVE JoinDocs(_)
JoinDocs(ds) ==
  IF ds = <<>> THEN <<>>
  ELSE IF Len(ds) = 1 THEN ds[1]
  ELSE ds[1] \o <<" ">> \o JoinDocs(Tail(ds))

(* a text that is one JSON document, surrounding whitespace allowed *)
IsJsonDocument(s) ==
  LET r == raw_decode(s, json_ws(s, 0))
  IN  r.ok /\ json_ws(s, r.end) = Len(s)

-----------------------------------------------------------------------------
(* Texts used by the code *)
T_V == <<"V">>
T_y == <<"y">>
T_v == <<"v">>
T_a == <<"a">>
T_x == <<"x">>
T_Unit == <<"U", "n", "i", "t">>
T_Symbol == <<"S", "y", "m", "b", "o", "l">>
T_BaseQuantity == <<"B", "a", "s", "e", "Q", "u", "a", "n", "t", "i", "t", "y">>
T_potential == <<"p", "o", "t", "e", "n", "t", "i", "a", "l">>
T_voltage == <<"v", "o", "l", "t", "a", "g", "e">>
T_current == <<"c", "u", "r", "r", "e", "n", "t">>
T_values == <<"v", "a", "l", "u", "e", "s">>
T_m_values == <<"m", "_">> \o T_values
T_xValues == <<"x", "V", "a", "l", "u", "e", "s">>
T_yValues == <<"y", "V", "a", "l", "u", "e", "s">>
T_measurements == <<"m", "e", "a", "s", "u", "r", "e", "m", "e", "n", "t", "s">>
T_Measurements == <<"M">> \o Tail(T_measurements)
T_curves == <<"c", "u", "r", "v", "e", "s">>
T_Curves == <<"C">> \o Tail(T_curves)
T_title == <<"t", "i", "t", "l", "e">>
T_Title == <<"T">> \o Tail(T_title)

UpperCase == <<"A", "B", "C", "D", "E", "F", "G", "H", "I", "J", "K", "L", "M",
               "N", "O", "P", "Q", "R", "S", "T", "U", "V", "W", "X", "Y", "Z">>
LowerCase == <<"a", "b", "c", "d", "e", "f", "g", "h", "i", "j", "k", "l", "m",
               "n", "o", "p", "q", "r", "s", "t", "u", "v", "w", "x", "y", "z">>

(* str.lower() *)
lower(s) ==
  [i \in 1..Len(s) |->
     IF \E j \in 1..26 : UpperCase[j] = s[i]
     THEN LowerCase[CHOOSE j \in 1..26 : UpperCase[j] = s[i]]
     ELSE s[i]]

(* k in d, d.get(k, default) of a dict *)
DictHas(d, k) == \E i \in 1..Len(d.keys) : d.keys[i] = k
DictGet(d, k, default) ==
  IF DictHas(d, k) THEN d.vals[CHOOSE i \in 1..Len(d.keys) : d.keys[i] = k] ELSE default

-----------------------------------------------------------------------------
(* extract_values_from_list, lines 23-34 *)

(* isinstance(first, (int, float)): bool is a subclass of int *)
IsIntOrFloat(v) == v.t = "num" \/ v.t = "bool"

(* [item.get(f, 0) for item in data_list]: only a dict has .get *)
Project(items, f) ==
  IF \E i \in 1..Len(items) : items[i].t # "dict" THEN Raised
  ELSE Ok([i \in 1..Len(items) |-> DictGet(items[i], f, Num(0))])

extract_values_from_list(dl) ==
  IF dl.t # "list" \/ dl.items = <<>> THEN Ok(<<>>)
  ELSE LET first == dl.items[1]
       IN  IF IsIntOrFloat(first) THEN Ok(dl.items)
           ELSE IF first.t = "dict"
           THEN IF DictHas(first, T_V) THEN Project(dl.items, T_V)
                ELSE IF DictHas(first, T_y) THEN Project(dl.items, T_y)
                ELSE IF DictHas(first, T_v) THEN Project(dl.items, T_v)
                ELSE Ok(<<>>)
           ELSE Ok(<<>>)

-----------------------------------------------------------------------------
(* recursive_search_arrays, lines 36-69 *)

DataThreshold == 5
KnownKeys == {T_m_values, T_values, T_x, T_y, T_xValues, T_yValues}

(* lines 41-47: the role the object's Unit gives; .lower() of a value that *)
(* is not a str raises                                                     *)
UnitType(obj) ==
  IF ~(DictHas(obj, T_Unit) /\ DictGet(obj, T_Unit, Null).t = "dict") THEN Ok("unknown")
  ELSE LET unit == DictGet(obj, T_Unit, Null)
           sym  == DictGet(unit, T_Symbol, Str(<<>>))
           qty  == DictGet(unit, T_BaseQuantity, Str(<<>>))
       IN  IF sym.t # "str" \/ qty.t # "str" THEN Raised
           ELSE LET symbol == lower(sym.s)
                    quantity == lower(qty.s)
                IN  IF symbol = T_v \/ Contains(quantity, T_potential)
                         \/ Contains(quantity, T_voltage)
                    THEN Ok("potential")
                    ELSE IF symbol = T_a \/ Contains(quantity, T_current)
                    THEN Ok("current")
                    ELSE Ok("unknown")

(* lines 52-54 *)
KeyType(k) ==
  LET k_low == lower(k)
  IN  IF Contains(k_low, T_x) \/ Contains(k_low, T_potential) THEN "potential"
      ELSE IF Contains(k_low, T_y) \/ Contains(k_low, T_current) THEN "current"
      ELSE "unknown"

(* the key's name refines the role even when the Unit gave one *)
ItemTypeKeyFirst(current_type, k) ==
  IF KeyType(k) # "unknown" THEN KeyType(k) ELSE current_type

(* lines 50-54 *)
ItemType(current_type, k) ==
  IF current_type = "unknown" THEN KeyType(k) ELSE current_type

(* lines 59-68: the candidate a value gives under its key, if any *)
Emit(k, v, item_type) ==
  IF v.t = "list" /\ Len(v.items) > DataThreshold
     /\ (k \in KnownKeys \/ item_type # "unknown")
  THEN LET clean_data == extract_values_from_list(v)
       IN  IF clean_data.exc THEN Raised
           ELSE IF Len(clean_data.val) > DataThreshold
           THEN Ok(<< [type |-> item_type, data |-> clean_data.val,
                       length |-> Len(clean_data.val), key |-> k] >>)
           ELSE Ok(<<>>)
  ELSE Ok(<<>>)

RECURSIVE recursive_search_arrays(_)
RECURSIVE SearchItems(_, _, _)

(* lines 49-68: the loop over obj.items(), from the i-th pair on *)
SearchItems(obj, current_type, i) ==
  IF i > Len(obj.keys) THEN Ok(<<>>)
  ELSE LET k == obj.keys[i]
           v == obj.vals[i]
           item_type == ItemType(current_type, k)
           below == IF v.t \in {"dict", "list"} THEN recursive_search_arrays(v) ELSE Ok(<<>>)
       IN  IF below.exc THEN Raised
           ELSE LET own == Emit(k, v, item_type)
                IN  IF own.exc THEN Raised
                    ELSE LET rest == SearchItems(obj, current_type, i + 1)
                         IN  IF rest.exc THEN Raised
                             ELSE Ok(below.val \o own.val \o rest.val)

recursive_search_arrays(obj) ==
  IF obj.t # "dict" THEN Ok(<<>>)
  ELSE LET current_type == UnitType(obj)
       IN  IF current_type.exc THEN Raised
           ELSE SearchItems(obj, current_type.val, 1)

-----------------------------------------------------------------------------
(* smart_extract_curve, lines 71-101 *)

(* [c for c in cs if c['type'] == role] *)
OfType(cs, role) == SelectSeq(cs, LAMBDA c : c.type = role)

(* max(cs, key=lambda x: x['length']): the first one of greatest length *)
MaxByLength(cs) ==
  cs[CHOOSE i \in 1..Len(cs) :
       /\ \A j \in 1..Len(cs) : cs[j].length <= cs[i].length
       /\ \A j \in 1..(i - 1) : cs[j].length < cs[i].length]

(* lines 76-80 *)
PrimaryX(cs) ==
  IF OfType(cs, "potential") # <<>> THEN MaxByLength(OfType(cs, "potential")).data ELSE <<>>
PrimaryY(cs) ==
  IF OfType(cs, "current") # <<>> THEN MaxByLength(OfType(cs, "current")).data ELSE <<>>

(* the fallback also runs when the two selections differ in length *)
NeedsFallbackUnequal(bx, by) == bx = <<>> \/ by = <<>> \/ Len(bx) # Len(by)

(* line 82 *)
NeedsFallback(bx, by) == bx = <<>> \/ by = <<>>

(* lines 83-87: by_length[l] *)
Group(cs, l) == SelectSeq(cs, LAMBDA c : c.length = l)

(* lines 89-91: the greatest length whose group has two candidates, or 0 *)
PairLength(cs) ==
  LET ls == {l \in {cs[i].length : i \in 1..Len(cs)} : Len(Group(cs, l)) >= 2}
  IN  IF ls = {} THEN 0 ELSE CHOOSE l \in ls : \A m \in ls : m <= l

(* next((index of item in group if c in item key.lower()), 0) *)
FirstWith(group, c) ==
  LET is == {i \in 1..Len(group) : Contains(lower(group[i].key), c)}
  IN  IF is = {} THEN 0 ELSE CHOOSE i \in is : \A j \in is : i <= j

(* next((i for i in group if i is not group[n]), None) *)
FirstNot(group, n) == IF n = 1 THEN 2 ELSE 1

(* the first two of the group, the second as X *)
PairInSwapped(group) == <<2, 1>>

(* lines 92-99: the two indices chosen in a group of two or more *)
PairIn(group) ==
  LET x_cand == FirstWith(group, T_x)
      y_cand == FirstWith(group, T_y)
  IN  IF x_cand = 0 /\ y_cand = 0 THEN <<1, 2>>
      ELSE IF y_cand = 0 THEN <<x_cand, FirstNot(group, x_cand)>>
      ELSE IF x_cand = 0 THEN <<FirstNot(group, y_cand), y_cand>>
      ELSE <<x_cand, y_cand>>

(* a fallback that clears both axes when no group qualifies *)
FallbackClears(cs, bx, by) ==
  IF PairLength(cs) = 0 THEN << <<>>, <<>> >>
  ELSE LET group == Group(cs, PairLength(cs))
           p == PairIn(group)
       IN  <<group[p[1]].data, group[p[2]].data>>

(* lines 83-100 *)
Fallback(cs, bx, by) ==
  IF PairLength(cs) = 0 THEN <<bx, by>>
  ELSE LET group == Group(cs, PairLength(cs))
           p == PairIn(group)
       IN  <<group[p[1]].data, group[p[2]].data>>

smart_extract_curve(obj) ==
  LET cs == recursive_search_arrays(obj)
  IN  IF cs.exc THEN Raised
      ELSE LET bx == PrimaryX(cs.val)
               by == PrimaryY(cs.val)
           IN  IF NeedsFallback(bx, by) THEN Ok(Fallback(cs.val, bx, by))
               ELSE Ok(<<bx, by>>)

-----------------------------------------------------------------------------
(* parse_pssession, lines 119-140 *)

(* iter(v): a list, a str or a dict can be iterated, anything else raises *)
Iterate(v) ==
  IF v.t = "list" THEN Ok(v.items)
  ELSE IF v.t = "str" THEN Ok([i \in 1..Len(v.s) |-> Str(<<v.s[i]>>)])
  ELSE IF v.t = "dict" THEN Ok([i \in 1..Len(v.keys) |-> Str(v.keys[i])])
  ELSE Raised

(* len(v) of a value that can be iterated *)
PyLen(v) == Len(Iterate(v).val)

DigitChars == <<"0", "1", "2", "3", "4", "5", "6", "7", "8", "9">>

(* str(n) of an int n >= 0 *)
RECURSIVE IntText(_)
IntText(n) ==
  IF n < 10 THEN <<DigitChars[n + 1]>>
  ELSE Append(IntText(n \div 10), DigitChars[(n % 10) + 1])

(* f"{v}" of a str, an int, None or a bool *)
Format(v) ==
  CASE v.t = "str"  -> v.s
    [] v.t = "num"  -> IntText(v.n)
    [] v.t = "null" -> <<"N", "o", "n", "e">>
    [] v.t = "bool" -> IF v.b THEN <<"T", "r", "u", "e">> ELSE <<"F", "a", "l", "s", "e">>

(* line 134: name.rsplit('.', 1)[0] *)
rsplit_dot(name) ==
  LET dots == {i \in 1..Len(name) : name[i] = "."}
  IN  IF dots = {} THEN name
      ELSE SubSeq(name, 1, (CHOOSE i \in dots : \A j \in dots : j <= i) - 1)

(* lines 121-124 *)
MeasurementsOf(root_obj) ==
  IF DictHas(root_obj, T_measurements) THEN DictGet(root_obj, T_measurements, Null)
  ELSE IF DictHas(root_obj, T_Measurements) THEN DictGet(root_obj, T_Measurements, Null)
  ELSE IF DictHas(root_obj, T_curves) \/ DictHas(root_obj, T_Curves) THEN List(<<root_obj>>)
  ELSE List(<<>>)

(* lines 128-129 *)
TitleOf(meas) == DictGet(meas, T_title, DictGet(meas, T_Title, Str(<<>>)))
CurvesOf(meas) == DictGet(meas, T_curves, DictGet(meas, T_Curves, List(<<>>)))

(* a curve passes when either axis has values *)
PairedEither(x, y) == Len(x) > 0 \/ Len(y) > 0

(* line 132 *)
Paired(x, y) == Len(x) > 0 /\ Len(y) > 0

(* lines 134-137 *)
DatasetName(fname, meas_list, meas_title, curve_list, idx) ==
  rsplit_dot(fname)
    \o (IF PyLen(meas_list) > 1 THEN <<"-">> \o Format(meas_title) ELSE <<>>)
    \o (IF PyLen(curve_list) > 1 THEN <<"-", "C">> \o IntText(idx + 1) ELSE <<>>)

(* a frame of the two sequences as they are *)
DataFrameWhole(x, y) == [V |-> x, I |-> y]

(* lines 133, 138: pd.DataFrame({'V': x[:min_len], 'I': y[:min_len]}) *)
DataFrame(x, y) ==
  LET min_len == Min(Len(x), Len(y))
  IN  [V |-> SubSeq(x, 1, min_len), I |-> SubSeq(y, 1, min_len)]

(* datasets[name] = frame *)
Store(ds, name, frame) ==
  [n \in (DOMAIN ds) \cup {name} |-> IF n = name THEN frame ELSE ds[n]]

-----------------------------------------------------------------------------
(* Values of the variables a specification does not use *)
IdleSplit == docs = <<>> /\ tail = <<>> /\ content = <<>> /\ pos = 0
IdleNorm  == data_list = Null /\ norm_result = Raised
IdleCurve ==
  /\ curve_obj = Null /\ candidates = <<>> /\ best_x = <<>> /\ best_y = <<>>
  /\ fallback_ran = FALSE
IdleParse ==
  /\ file = <<>> /\ root_i = 0 /\ measurements = <<>> /\ meas_i = 0
  /\ title = Null /\ curves = <<>> /\ c_idx = 0
  /\ datasets = <<>> /\ raised = FALSE /\ hist = <<>>

-----------------------------------------------------------------------------
(* The document-splitting loop of parse_pssession as a state machine *)

(* contents that are not a JSON document *)
TailTexts == {t \in Texts(SplitChars, MaxTail) : ~IsJsonDocument(t)}

InitSplit ==
  /\ pc = "split"
  /\ docs \in DocLists
  /\ tail \in TailTexts
  /\ content = JoinDocs(docs) \o tail
  /\ pos = 0
  /\ all_json_objects = <<>>
  /\ IdleNorm /\ IdleCurve /\ IdleParse

(* lines 110-116: an iteration that decodes a value *)
SplitDecode ==
  /\ pc = "split"
  /\ pos < Len(content)
  /\ LET p == SkipSpace(content, pos)
         r == raw_decode(content, p)
     IN  /\ p < Len(content)
         /\ r.ok
         /\ all_json_objects' = Append(all_json_objects, r.obj)
         /\ pos' = r.end
  /\ UNCHANGED <<pc, docs, tail, content, normVars, curveVars, parseVars>>

(* lines 110, 112, 117: the loop ends: content exhausted or a decode fails *)
SplitBreak ==
  /\ pc = "split"
  /\ LET p == SkipSpace(content, pos)
     IN  /\ \/ p >= Len(content)
            \/ ~raw_decode(content, p).ok
         /\ pos' = p
  /\ pc' = "split_done"
  /\ UNCHANGED <<docs, tail, content, all_json_objects, normVars, curveVars, parseVars>>

NextSplit == SplitDecode \/ SplitBreak
SpecSplit == InitSplit /\ [][NextSplit]_vars

(* the values of the documents, each decoded alone *)
DocValues == [i \in 1..Len(docs) |-> raw_decode(docs[i], 0).obj]

(* the first decode attempt in the remainder fails (or nothing is left) *)
TailUndecodable ==
  LET p == json_ws(tail, 0)
  IN  p >= Len(tail) \/ ~raw_decode(tail, p).ok

(* the remainder does not continue the number that ends the last document *)
TailSeparate ==
  docs = <<>> \/ raw_decode(docs[Len(docs)] \o tail, 0).end = Len(docs[Len(docs)])

(* C1, as claimed: N documents separated by whitespace and followed by  *)
(* arbitrary content that is not JSON give exactly the N values of the  *)
(* documents, in order.                                                 *)
C1_AnyTail == pc = "split_done" => all_json_objects = DocValues

(* C1, amended: N documents separated by whitespace, followed by a       *)
(* remainder at whose first non-blank character no JSON value can be     *)
(* decoded and which does not continue the last document, give exactly   *)
(* the N values of the documents, in order; with N = 0 the list is empty.*)
C1_Split ==
  (pc = "split_done" /\ TailUndecodable /\ TailSeparate)
    => /\ all_json_objects = DocValues
       /\ Len(all_json_objects) = Len(docs)

C1_Witness ==
  /\ pc = "split_done" /\ TailUndecodable /\ TailSeparate
  /\ Len(docs) = 2 /\ Len(tail) >= 2 /\ Len(all_json_objects) = 2

C1_WitnessEmpty ==
  /\ pc = "split_done" /\ TailUndecodable /\ docs = <<>> /\ tail # <<>>
  /\ all_json_objects = <<>>

-----------------------------------------------------------------------------
(* extract_values_from_list on the arrays of at most MaxNormLen elements *)

T_z == <<"z">>
NormItems ==
  { Num(1), Num(2), Bool(TRUE), Null, Str(T_a), List(<<Num(1)>>),
    Dict(<<T_V>>, <<Num(1)>>), Dict(<<T_y>>, <<Num(5)>>), Dict(<<T_v>>, <<Num(7)>>),
    Dict(<<T_y, T_V>>, <<Num(5), Num(3)>>), Dict(<<T_v, T_y>>, <<Num(7), Num(6)>>),
    Dict(<<T_z>>, <<Num(9)>>) }

NormInputs == {List(items) : items \in UNION {[1..n -> NormItems] : n \in 0..MaxNormLen}}

InitNorm ==
  /\ pc = "norm"
  /\ data_list \in NormInputs
  /\ norm_result = Raised
  /\ all_json_objects = <<>>
  /\ IdleSplit /\ IdleCurve /\ IdleParse

(* the call returns *)
NormReturn ==
  /\ pc = "norm"
  /\ ~extract_values_from_list(data_list).exc
  /\ norm_result' = extract_values_from_list(data_list)
  /\ pc' = "norm_done"
  /\ UNCHANGED <<data_list, all_json_objects, splitVars, curveVars, parseVars>>

(* the call raises: item.get of an element that is not a dict *)
NormRaise ==
  /\ pc = "norm"
  /\ extract_values_from_list(data_list).exc
  /\ norm_result' = Raised
  /\ pc' = "norm_raised"
  /\ UNCHANGED <<data_list, all_json_objects, splitVars, curveVars, parseVars>>

NextNorm == NormReturn \/ NormRaise
SpecNorm == InitNorm /\ [][NextNorm]_vars

(* the first of the fields V, y, v that the object has, <<>> for none *)
FirstField(o) ==
  IF DictHas(o, T_V) THEN T_V
  ELSE IF DictHas(o, T_y) THEN T_y
  ELSE IF DictHas(o, T_v) THEN T_v
  ELSE <<>>

(* C5, as claimed: empty input gives the empty sequence; a first element *)
(* that is a number gives the array unchanged; a first element that is   *)
(* an object gives the projection of the (object) elements through the   *)
(* first of V, y, v it has, 0 for an element without the field; every    *)
(* other first element (string, array, null, bool) and an object with    *)
(* none of the fields give the empty sequence.                           *)
C5_Normalizer ==
  LET items == data_list.items
      objects == \A i \in 1..Len(items) : items[i].t = "dict"
  IN  /\ (pc = "norm_done" /\ items = <<>>) => norm_result.val = <<>>
      /\ (pc = "norm_done" /\ items # <<>> /\ items[1].t = "num")
            => norm_result.val = items
      /\ (pc = "norm_done" /\ items # <<>> /\ items[1].t = "dict" /\ objects
            /\ FirstField(items[1]) # <<>>)
            => norm_result.val =
                 [i \in 1..Len(items) |-> DictGet(items[i], FirstField(items[1]), Num(0))]
      /\ (pc = "norm_done" /\ items # <<>> /\ items[1].t = "dict"
            /\ FirstField(items[1]) = <<>>)
            => norm_result.val = <<>>
      /\ (pc \in {"norm_done", "norm_raised"} /\ items # <<>>
            /\ items[1].t \in {"str", "list", "null", "bool"})
            => (pc = "norm_done" /\ norm_result.val = <<>>)

-----------------------------------------------------------------------------
(* Curve objects *)

T_arr1 == <<"a", "r", "r", "1">>
T_arr2 == <<"a", "r", "r", "2">>
T_xData == <<"x", "D", "a", "t", "a">>
T_yData == <<"y", "D", "a", "t", "a">>
T_Potential == <<"P", "o", "t", "e", "n", "t", "i", "a", "l">>
T_Current == <<"C", "u", "r", "r", "e", "n", "t">>
T_Time == <<"T", "i", "m", "e">>
T_s == <<"s">>
T_A == <<"A">>

UnitV == Dict(<<T_Symbol, T_BaseQuantity>>, <<Str(T_V), Str(T_Potential)>>)
UnitA == Dict(<<T_Symbol, T_BaseQuantity>>, <<Str(T_A), Str(T_Current)>>)
UnitOther == Dict(<<T_Symbol, T_BaseQuantity>>, <<Str(T_s), Str(T_Time)>>)
UnitBad == Dict(<<T_Symbol>>, <<Num(1)>>)

(* the numbers of slot s: 10*s + 1, 10*s + 2, ... *)
NumArray(s, n) == List([j \in 1..n |-> Num(10 * s + j)])
WrapArray(s, n) == List([j \in 1..n |-> Dict(<<T_V>>, <<Num(10 * s + j)>>)])

Lens == {DataThreshold, DataThreshold + 1, MaxLen}

(* an object with the pairs (ks[i], vs[i]) and, if u is a dict, a Unit *)
WithUnit(ks, vs, u) ==
  IF u.t = "dict" THEN Dict(Append(ks, T_Unit), Append(vs, u)) ELSE Dict(ks, vs)

(* a curve that holds numeric arrays of the lengths ls directly under *)
(* the keys ks, no Unit                                               *)
FlatKeys == {T_arr1, T_arr2, T_values, T_m_values, T_xData, T_yData}
DistinctKeys(n) == {k \in [1..n -> FlatKeys] : \A i, j \in 1..n : i # j => k[i] # k[j]}
FlatCurve(ks, ls) == Dict(ks, [i \in 1..Len(ks) |-> NumArray(i, ls[i])])

(* the values of slot s of a nested curve: an array, or a child object *)
(* holding one array and possibly a Unit                               *)
SlotArrays(s) ==
  {NumArray(s, n) : n \in {DataThreshold + 1, MaxLen}}
    \cup {WrapArray(s, n) : n \in {DataThreshold + 1, MaxLen}}
InnerKeys == {T_m_values, T_y, T_arr1}
SlotValues(s) ==
  SlotArrays(s)
    \cup { WithUnit(<<k>>, <<a>>, u) :
             k \in InnerKeys, a \in SlotArrays(s), u \in {Null, UnitV, UnitA} }

TopUnits == {Null, UnitV, UnitA, UnitOther, UnitBad}

-----------------------------------------------------------------------------
(* smart_extract_curve as a state machine *)

InitCurve ==
  /\ pc = "curve"
  /\ \/ \E n \in 1..MaxSlots : \E ks \in DistinctKeys(n), ls \in [1..n -> Lens] :
          curve_obj = FlatCurve(ks, ls)
     \/ \E k1 \in {T_arr1, T_yData}, v1 \in SlotValues(1), u \in TopUnits :
          curve_obj = WithUnit(<<k1>>, <<v1>>, u)
     \/ \E k1 \in {T_arr1, T_yData}, k2 \in {T_arr2, T_xData},
           v1 \in SlotValues(1), v2 \in SlotValues(2), u \in TopUnits :
          curve_obj = WithUnit(<<k1, k2>>, <<v1, v2>>, u)
  /\ candidates = <<>> /\ best_x = <<>> /\ best_y = <<>>
  /\ fallback_ran = FALSE
  /\ all_json_objects = <<>>
  /\ IdleSplit /\ IdleNorm /\ IdleParse

(* line 73 *)
Collect ==
  /\ pc = "curve"
  /\ ~recursive_search_arrays(curve_obj).exc
  /\ candidates' = recursive_search_arrays(curve_obj).val
  /\ pc' = "primary"
  /\ UNCHANGED <<curve_obj, best_x, best_y, fallback_ran, all_json_objects,
                 splitVars, normVars, parseVars>>

(* line 73: the search raises *)
CollectRaise ==
  /\ pc = "curve"
  /\ recursive_search_arrays(curve_obj).exc
  /\ pc' = "curve_raised"
  /\ UNCHANGED <<curveVars, all_json_objects, splitVars, normVars, parseVars>>

(* lines 76-82 *)
Primary ==
  /\ pc = "primary"
  /\ best_x' = PrimaryX(candidates)
  /\ best_y' = PrimaryY(candidates)
  /\ pc' = IF NeedsFallback(best_x', best_y') THEN "fallback" ELSE "curve_done"
  /\ UNCHANGED <<curve_obj, candidates, fallback_ran, all_json_objects,
                 splitVars, normVars, parseVars>>

(* lines 83-100 *)
FallbackStep ==
  /\ pc = "fallback"
  /\ best_x' = Fallback(candidates, best_x, best_y)[1]
  /\ best_y' = Fallback(candidates, best_x, best_y)[2]
  /\ fallback_ran' = TRUE
  /\ pc' = "curve_done"
  /\ UNCHANGED <<curve_obj, candidates, all_json_objects, splitVars, normVars, parseVars>>

NextCurve == Collect \/ CollectRaise \/ Primary \/ FallbackStep
SpecCurve == InitCurve /\ [][NextCurve]_vars

-----------------------------------------------------------------------------
(* Properties of smart_extract_curve and recursive_search_arrays *)

HasType(cs, role) == \E i \in 1..Len(cs) : cs[i].type = role

(* no length group holds two candidates *)
NoTwoSameLength(cs) ==
  \A i, j \in 1..Len(cs) : i # j => cs[i].length # cs[j].length

(* two unlabeled arrays of MaxLen (10) elements under the keys k1 and k2 *)
TwoArrays(k1, k2) == Dict(<<k1, k2>>, <<NumArray(1, MaxLen), NumArray(2, MaxLen)>>)

(* C6, as claimed: two unlabeled arrays of 10 elements under "arr1" and  *)
(* "arr2", no Unit: the fallback pairs the first as potential and the    *)
(* second as current.                                                    *)
C6_Arr1Arr2Pair ==
  (pc = "curve_done" /\ curve_obj = TwoArrays(T_arr1, T_arr2))
    => /\ best_x = NumArray(1, MaxLen).items
       /\ best_y = NumArray(2, MaxLen).items

(* C6, amended: under the known value-holder keys "values" and          *)
(* "m_values" (either order) the fallback pairs the two arrays, first   *)
(* as potential and second as current; under "arr1" and "arr2" no array *)
(* becomes a candidate and both returned axes are empty.                *)
C6_KnownKeysPair ==
  /\ (pc = "curve_done"
        /\ curve_obj \in {TwoArrays(T_values, T_m_values), TwoArrays(T_m_values, T_values)})
       => /\ fallback_ran
          /\ best_x = NumArray(1, MaxLen).items
          /\ best_y = NumArray(2, MaxLen).items
  /\ (pc = "curve_done" /\ curve_obj = TwoArrays(T_arr1, T_arr2))
       => (candidates = <<>> /\ best_x = <<>> /\ best_y = <<>>)

C6_Witness ==
  /\ pc = "curve_done" /\ fallback_ran
  /\ curve_obj = TwoArrays(T_values, T_m_values)
  /\ Len(best_x) = MaxLen /\ Len(best_y) = MaxLen /\ best_x # best_y

(* C7, as claimed: when the fallback runs and no length group holds two *)
(* candidates, both returned axes are empty.                            *)
C7_BothEmpty ==
  (pc = "curve_done" /\ fallback_ran /\ NoTwoSameLength(candidates))
    => (best_x = <<>> /\ best_y = <<>>)

(* C7, amended: when the fallback runs and no length group holds two    *)
(* candidates, pairing fails with at least one returned axis empty, and *)
(* each axis is empty exactly when no candidate has its role: an axis   *)
(* the primary strategy selected is returned as selected.               *)
C7_PairingFails ==
  (pc = "curve_done" /\ fallback_ran /\ NoTwoSameLength(candidates))
    => /\ best_x = <<>> \/ best_y = <<>>
       /\ best_x = <<>> <=> ~HasType(candidates, "potential")
       /\ best_y = <<>> <=> ~HasType(candidates, "current")
       /\ \A i \in 1..Len(candidates) :
            /\ candidates[i].type = "potential" => Len(best_x) >= candidates[i].length
            /\ candidates[i].type = "current" => Len(best_y) >= candidates[i].length

C7_Witness ==
  /\ pc = "curve_done" /\ fallback_ran /\ NoTwoSameLength(candidates)
  /\ Len(candidates) >= 2
  /\ best_x # <<>> /\ best_y = <<>>

(* C9: with a potential candidate and a current candidate, the result   *)
(* is the data of a potential candidate of greatest length and of a     *)
(* current candidate of greatest length, and the fallback does not run. *)
C9_Primary ==
  (pc \in {"fallback", "curve_done"}
     /\ HasType(candidates, "potential") /\ HasType(candidates, "current"))
    => /\ pc = "curve_done" /\ ~fallback_ran
       /\ \E i \in 1..Len(candidates) :
            /\ candidates[i].type = "potential" /\ best_x = candidates[i].data
            /\ \A j \in 1..Len(candidates) :
                 candidates[j].type = "potential" => candidates[j].length <= candidates[i].length
       /\ \E i \in 1..Len(candidates) :
            /\ candidates[i].type = "current" /\ best_y = candidates[i].data
            /\ \A j \in 1..Len(candidates) :
                 candidates[j].type = "current" => candidates[j].length <= candidates[i].length

C9_Witness ==
  /\ pc = "curve_done" /\ ~fallback_ran
  /\ HasType(candidates, "potential") /\ HasType(candidates, "current")
  /\ Len(best_x) # Len(best_y)
  /\ ~NoTwoSameLength(candidates)

(* the slot whose numbers a candidate holds *)
SlotOf(c) == c.data[1].n \div 10

(* the role of an array under key k of an object o: the role of o's own *)
(* Unit, or, if that is unknown, the role of the key's name             *)
RoleIn(o, k) ==
  IF UnitType(o).val # "unknown" THEN UnitType(o).val ELSE KeyType(k)

(* C10: a candidate from an object's own key has the role of that       *)
(* object's Unit whatever the key; the role is not passed down: a       *)
(* candidate from a child object has the role of the child's Unit or,   *)
(* if the child has none, of its own key's name; the key's name counts  *)
(* only when the Unit role is unknown.                                  *)
C10_Roles ==
  pc \in {"primary", "fallback", "curve_done"} =>
    \A i \in 1..Len(candidates) :
      LET c == candidates[i]
          v == curve_obj.vals[SlotOf(c)]
      IN  IF v.t = "list"
          THEN c.key = curve_obj.keys[SlotOf(c)] /\ c.type = RoleIn(curve_obj, c.key)
          ELSE c.key = v.keys[1] /\ c.type = RoleIn(v, c.key)

C10_Witness ==
  /\ pc = "curve_done"
  /\ UnitType(curve_obj).val = "potential"
  /\ \E i, j \in 1..Len(candidates) :
       /\ curve_obj.vals[SlotOf(candidates[i])].t = "list"
       /\ KeyType(candidates[i].key) = "current"
       /\ candidates[i].type = "potential"
       /\ curve_obj.vals[SlotOf(candidates[j])].t = "dict"
       /\ ~DictHas(curve_obj.vals[SlotOf(candidates[j])], T_Unit)
       /\ candidates[j].type = "current"

-----------------------------------------------------------------------------
(* The files given to parse_pssession, after the documents are split *)

T_run1_json == <<"r", "u", "n", "1", ".", "j", "s", "o", "n">>
T_a_b_json == <<"a", ".", "b", ".", "j", "s", "o", "n">>
T_B == <<"B">>
FileNames == {T_run1_json, T_a_b_json}

(* a potential array of 6 and a current array of MaxLen elements *)
CurvePrimary ==
  Dict(<<T_xData, T_yData>>, <<NumArray(1, DataThreshold + 1), NumArray(2, MaxLen)>>)
(* a single candidate *)
CurveSingle == Dict(<<T_xData>>, <<NumArray(1, MaxLen)>>)
(* a Unit whose Symbol is a number: .lower() raises *)
CurveRaises == WithUnit(<<T_values>>, <<NumArray(1, MaxLen)>>, UnitBad)
ParseCurves == {CurvePrimary, CurveSingle, CurveRaises}

CurveLists == UNION {[1..n -> ParseCurves] : n \in 1..MaxCurves}
Measurement(t, cs) == Dict(<<T_title, T_curves>>, <<t, List(cs)>>)
Measurements == {Measurement(Str(t), cs) : t \in {T_A, T_B}, cs \in CurveLists}

(* a root object with one or two measurements *)
MainRoots ==
  {Dict(<<T_measurements>>, <<List(<<m>>)>>) : m \in Measurements}
    \cup {Dict(<<T_measurements>>, <<List(<<m1, m2>>)>>) : m1 \in Measurements, m2 \in Measurements}

OtherRoots ==
  { Num(1),
    Dict(<<T_Measurements>>,
         <<List(<<Dict(<<T_Title, T_Curves>>,
                       <<Num(7), List(<<TwoArrays(T_values, T_m_values)>>)>>)>>)>>),
    Dict(<<T_title, T_curves>>, <<Str(T_A), List(<<CurvePrimary, CurvePrimary>>)>>),
    Dict(<<T_measurements>>, <<Num(1)>>),
    Dict(<<T_measurements>>, <<List(<<Num(1), Measurement(Str(T_B), <<CurvePrimary>>)>>)>>),
    Dict(<<T_measurements>>, <<List(<<Measurement(Str(T_A), <<CurvePrimary>>),
                                      Dict(<<T_title, T_curves>>, <<Str(T_B), Null>>)>>)>>),
    Dict(<<T_measurements>>, <<List(<<Dict(<<T_title>>, <<Str(T_A)>>)>>)>>),
    Dict(<<T_title>>, <<Str(T_A)>>) }

(* a root that is its own measurement: a curve that pairs, then one of *)
(* the curves with one or two arrays                                   *)
SmallCurves ==
  {FlatCurve(ks, ls) : ks \in DistinctKeys(1), ls \in [1..1 -> Lens]}
    \cup {FlatCurve(ks, ls) : ks \in DistinctKeys(2), ls \in [1..2 -> Lens]}
CurveRoots == {Dict(<<T_curves>>, <<List(<<CurvePrimary, c>>)>>) : c \in SmallCurves}

RootLists ==
  {<<r>> : r \in MainRoots \cup OtherRoots \cup CurveRoots}
    \cup {<<r1, r2>> : r1 \in OtherRoots, r2 \in OtherRoots}

-----------------------------------------------------------------------------
(* parse_pssession, lines 119-140, as a state machine *)

InitParse ==
  /\ pc = "roots"
  /\ file \in FileNames
  /\ all_json_objects \in RootLists
  /\ root_i = 1
  /\ measurements = List(<<>>) /\ meas_i = 0
  /\ title = Str(<<>>) /\ curves = List(<<>>) /\ c_idx = 0
  /\ datasets = <<>>
  /\ raised = FALSE
  /\ hist = <<>>
  /\ IdleSplit /\ IdleNorm /\ IdleCurve

parseRest == <<file, all_json_objects, splitVars, normVars, curveVars>>

(* line 120: a root that is not a dict is skipped *)
RootSkip ==
  /\ pc = "roots" /\ root_i <= Len(all_json_objects)
  /\ all_json_objects[root_i].t # "dict"
  /\ root_i' = root_i + 1
  /\ UNCHANGED <<pc, measurements, meas_i, title, curves, c_idx, datasets, raised, hist, parseRest>>

(* lines 121-126: the measurements of a root are found and can be iterated *)
RootEnter ==
  /\ pc = "roots" /\ root_i <= Len(all_json_objects)
  /\ all_json_objects[root_i].t = "dict"
  /\ ~Iterate(MeasurementsOf(all_json_objects[root_i])).exc
  /\ measurements' = MeasurementsOf(all_json_objects[root_i])
  /\ meas_i' = 1
  /\ pc' = "meas"
  /\ UNCHANGED <<root_i, title, curves, c_idx, datasets, raised, hist, parseRest>>

(* line 126 raises, line 139 catches, line 140 returns *)
RootRaise ==
  /\ pc = "roots" /\ root_i <= Len(all_json_objects)
  /\ all_json_objects[root_i].t = "dict"
  /\ Iterate(MeasurementsOf(all_json_objects[root_i])).exc
  /\ raised' = TRUE
  /\ pc' = "returned"
  /\ UNCHANGED <<root_i, measurements, meas_i, title, curves, c_idx, datasets, hist, parseRest>>

(* lines 119, 140: no root is left *)
Return ==
  /\ pc = "roots" /\ root_i > Len(all_json_objects)
  /\ pc' = "returned"
  /\ UNCHANGED <<parseVars, all_json_objects, splitVars, normVars, curveVars>>

(* line 127 *)
MeasSkip ==
  /\ pc = "meas" /\ meas_i <= PyLen(measurements)
  /\ Iterate(measurements).val[meas_i].t # "dict"
  /\ meas_i' = meas_i + 1
  /\ UNCHANGED <<pc, root_i, measurements, title, curves, c_idx, datasets, raised, hist, parseRest>>

(* lines 128-130 *)
MeasEnter ==
  /\ pc = "meas" /\ meas_i <= PyLen(measurements)
  /\ LET meas == Iterate(measurements).val[meas_i]
     IN  /\ meas.t = "dict"
         /\ ~Iterate(CurvesOf(meas)).exc
         /\ title' = TitleOf(meas)
         /\ curves' = CurvesOf(meas)
  /\ c_idx' = 0
  /\ pc' = "curves"
  /\ UNCHANGED <<root_i, measurements, meas_i, datasets, raised, hist, parseRest>>

(* line 130 raises: the curves cannot be iterated *)
MeasRaise ==
  /\ pc = "meas" /\ meas_i <= PyLen(measurements)
  /\ LET meas == Iterate(measurements).val[meas_i]
     IN  meas.t = "dict" /\ Iterate(CurvesOf(meas)).exc
  /\ raised' = TRUE
  /\ pc' = "returned"
  /\ UNCHANGED <<root_i, measurements, meas_i, title, curves, c_idx, datasets, hist, parseRest>>

(* line 126: no measurement is left *)
MeasDone ==
  /\ pc = "meas" /\ meas_i > PyLen(measurements)
  /\ root_i' = root_i + 1
  /\ pc' = "roots"
  /\ UNCHANGED <<measurements, meas_i, title, curves, c_idx, datasets, raised, hist, parseRest>>

(* lines 131-138: the curve pairs and its dataset is stored *)
CurvePair ==
  /\ pc = "curves" /\ c_idx < PyLen(curves)
  /\ LET curve == Iterate(curves).val[c_idx + 1]
         xy == smart_extract_curve(curve)
     IN  /\ ~xy.exc
         /\ Paired(xy.val[1], xy.val[2])
         /\ LET name == DatasetName(file, measurements, title, curves, c_idx)
                after == Store(datasets, name, DataFrame(xy.val[1], xy.val[2]))
            IN  /\ datasets' = after
                /\ hist' = Append(hist, [curve |-> curve, x |-> xy.val[1], y |-> xy.val[2],
                                         paired |-> TRUE, name |-> name, title |-> title,
                                         n |-> c_idx + 1, before |-> datasets, after |-> after])
  /\ c_idx' = c_idx + 1
  /\ UNCHANGED <<pc, root_i, measurements, meas_i, title, curves, raised, parseRest>>

(* lines 131-132: the curve does not pair *)
CurveFail ==
  /\ pc = "curves" /\ c_idx < PyLen(curves)
  /\ LET curve == Iterate(curves).val[c_idx + 1]
         xy == smart_extract_curve(curve)
     IN  /\ ~xy.exc
         /\ ~Paired(xy.val[1], xy.val[2])
         /\ hist' = Append(hist, [curve |-> curve, x |-> xy.val[1], y |-> xy.val[2],
                                  paired |-> FALSE, name |-> <<>>, title |-> title,
                                  n |-> c_idx + 1, before |-> datasets, after |-> datasets])
  /\ c_idx' = c_idx + 1
  /\ UNCHANGED <<pc, root_i, measurements, meas_i, title, curves, datasets, raised, parseRest>>

(* line 131 raises, line 139 catches, line 140 returns *)
CurveRaise ==
  /\ pc = "curves" /\ c_idx < PyLen(curves)
  /\ smart_extract_curve(Iterate(curves).val[c_idx + 1]).exc
  /\ raised' = TRUE
  /\ pc' = "returned"
  /\ UNCHANGED <<root_i, measurements, meas_i, title, curves, c_idx, datasets, hist, parseRest>>

(* line 130: no curve is left *)
CurvesDone ==
  /\ pc = "curves" /\ c_idx >= PyLen(curves)
  /\ meas_i' = meas_i + 1
  /\ pc' = "meas"
  /\ UNCHANGED <<root_i, measurements, title, curves, c_idx, datasets, raised, hist, parseRest>>

NextParse ==
  \/ RootSkip \/ RootEnter \/ RootRaise \/ Return
  \/ MeasSkip \/ MeasEnter \/ MeasRaise \/ MeasDone
  \/ CurvePair \/ CurveFail \/ CurveRaise \/ CurvesDone
SpecParse == InitParse /\ [][NextParse]_vars

-----------------------------------------------------------------------------
(* Properties of parse_pssession *)

(* C2, as claimed: when an exception is raised while a file is processed *)
(* the returned mapping is empty, also when earlier curves had paired.   *)
C2_EmptyOnException ==
  (pc = "returned" /\ raised) => DOMAIN datasets = {}

(* the last curve that stored a dataset under the name n *)
LastStore(n) ==
  CHOOSE i \in 1..Len(hist) :
    /\ hist[i].paired /\ hist[i].name = n
    /\ \A j \in (i + 1)..Len(hist) : ~(hist[j].paired /\ hist[j].name = n)

(* C3: every dataset of the mapping has a potential and a current       *)
(* sequence of the same length, the minimum of the lengths of the two   *)
(* sequences smart_extract_curve returned for its curve, each a prefix  *)
(* of its sequence, and neither is empty.                               *)
C3_EqualLength ==
  \A n \in DOMAIN datasets :
    /\ \E i \in 1..Len(hist) : hist[i].paired /\ hist[i].name = n
    /\ LET h == hist[LastStore(n)]
           d == datasets[n]
       IN  /\ Len(d.V) = Len(d.I)
           /\ Len(d.V) = Min(Len(h.x), Len(h.y))
           /\ Len(d.V) > 0
           /\ d.V = SubSeq(h.x, 1, Len(d.V))
           /\ d.I = SubSeq(h.y, 1, Len(d.I))

C3_Witness ==
  /\ pc = "returned"
  /\ \E n \in DOMAIN datasets :
       /\ Len(hist[LastStore(n)].x) < Len(hist[LastStore(n)].y)
       /\ Len(datasets[n].I) = DataThreshold + 1

(* the only root holds two measurements of two curves each *)
TwoByTwo ==
  /\ Len(all_json_objects) = 1
  /\ all_json_objects[1].t = "dict"
  /\ LET ms == MeasurementsOf(all_json_objects[1])
     IN  /\ ms.t = "list" /\ Len(ms.items) = 2
         /\ \A i \in 1..2 :
              /\ ms.items[i].t = "dict"
              /\ CurvesOf(ms.items[i]).t = "list"
              /\ Len(CurvesOf(ms.items[i]).items) = 2

(* C4, as claimed: a root with 2 measurements of 2 curves each, all four *)
(* pairing, gives exactly 4 datasets under 4 distinct names, each name   *)
(* holding its measurement's title and its suffix -C{n}.                 *)
C4_FourDatasets ==
  (pc = "returned" /\ TwoByTwo /\ Len(hist) = 4
     /\ \A i \in 1..Len(hist) : hist[i].paired)
    => /\ Cardinality(DOMAIN datasets) = 4
       /\ \A i, j \in 1..Len(hist) : i # j => hist[i].name # hist[j].name
       /\ \A i \in 1..Len(hist) :
            /\ hist[i].name \in DOMAIN datasets
            /\ Contains(hist[i].name, Format(hist[i].title))
            /\ Contains(hist[i].name, <<"-", "C">> \o IntText(hist[i].n))

(* C8: a curve whose candidates do not hold both a potential and a      *)
(* current candidate, and of which no two have the same length, does    *)
(* not pair and leaves the mapping as it was.                           *)
C8_NoDataset ==
  \A i \in 1..Len(hist) :
    LET cs == recursive_search_arrays(hist[i].curve).val
    IN  (~(HasType(cs, "potential") /\ HasType(cs, "current")) /\ NoTwoSameLength(cs))
          => /\ ~hist[i].paired
             /\ hist[i].x = <<>> \/ hist[i].y = <<>>
             /\ hist[i].after = hist[i].before

C8_Witness ==
  /\ pc = "returned"
  /\ \E i \in 1..Len(hist) :
       /\ Len(recursive_search_arrays(hist[i].curve).val) = 1
       /\ ~hist[i].paired
       /\ hist[i].x # <<>>
       /\ DOMAIN hist[i].before # {}
       /\ datasets = hist[i].before

-----------------------------------------------------------------------------
(* The four machines together *)
Init == InitSplit \/ InitNorm \/ InitCurve \/ InitParse
Next == NextSplit \/ NextNorm \/ NextCurve \/ NextParse
Spec == Init /\ [][Next]_vars

====
